---- MODULE Spec2Model ----
(***************************************************************************)
(* Model of the riotpool thread pool (crates/riotpool/src/lib.rs):         *)
(* ThreadPool::new, ThreadPool::execute, Drop for ThreadPool and the       *)
(* worker loop of Worker::new, over an mpsc channel whose receiver is      *)
(* shared by the workers behind Arc<Mutex<..>>.                            *)
(***************************************************************************)
EXTENDS Integers, Sequences, FiniteSets, TLC

\* Bounds of the model
MaxWorkers == 2
MaxJobs == 3
MaxDrops == 2

\* Err(RecvError) returned by recv(); 0 stands for "no message held"
RecvErr == -1
NoMsg == 0

NoSender == "sender is not available anymore"
SendFailed == "sending job to worker failed"

VARIABLES
    main,        \* position of the thread owning the pool
    size,        \* argument of ThreadPool::new
    workers,     \* ThreadPool.workers: sequence of [id, thread]
    sender,      \* ThreadPool.sender is Some(_)
    queue,       \* jobs buffered in the channel
    rxRefs,      \* strong count of the Arc holding the Mutex<Receiver>
    lock,        \* worker holding the receiver mutex, 0 when free
    poisoned,    \* the mutex is poisoned
    wpc,         \* position of each worker thread
    msg,         \* value of `message` in each worker thread
    bad,         \* jobs whose closure panics
    nextId,      \* identity of the next closure handed to execute
    accepted,    \* jobs for which execute returned
    rejected,    \* jobs for which execute panicked, with the message
    execCount,   \* how many times each closure was called
    delivered,   \* the jobs in the order recv handed them out
    log,         \* jobs in the order in which they ran to completion
    dropIdx,     \* position of the loop over workers in drop
    dropRuns,    \* how many times drop was entered
    closeCount,  \* how many times a Sender was dropped by drop
    joinCount,   \* how many times each worker's thread was joined
    joinFailed,  \* workers whose join returned Err
    queuedAtClose, \* jobs still buffered when the sender was dropped
    runningAtClose \* jobs being run when the sender was dropped

vars == <<main, size, workers, sender, queue, rxRefs, lock, poisoned, wpc, msg,
          bad, nextId, accepted, rejected, execCount, delivered, log,
          dropIdx, dropRuns, closeCount, joinCount, joinFailed, queuedAtClose,
          runningAtClose>>

Threads == 1..MaxWorkers
Jobs == 1..MaxJobs

poolVars == <<main, size, workers, sender, dropIdx, dropRuns, closeCount,
              joinCount, joinFailed, queuedAtClose, runningAtClose>>
submitVars == <<bad, nextId, accepted, rejected>>

Init ==
    /\ main = "start"
    /\ size = 0
    /\ workers = <<>>
    /\ sender = FALSE
    /\ queue = <<>>
    /\ rxRefs = 0
    /\ lock = 0
    /\ poisoned = FALSE
    /\ wpc = [w \in Threads |-> "unborn"]
    /\ msg = [w \in Threads |-> NoMsg]
    /\ bad = {}
    /\ nextId = 1
    /\ accepted = {}
    /\ rejected = {}
    /\ execCount = [j \in Jobs |-> 0]
    /\ delivered = <<>>
    /\ log = <<>>
    /\ dropIdx = 0
    /\ dropRuns = 0
    /\ closeCount = 0
    /\ joinCount = [w \in Threads |-> 0]
    /\ joinFailed = {}
    /\ queuedAtClose = {}
    /\ runningAtClose = {}

----------------------------------------------------------------------------
\* ThreadPool::new

\* the range written as the exclusive 1..size
IdRangeExclusive(n) == 1..(n - 1)

\* `for id in 1..=size`
IdRange(n) == 1..n

\* a size of zero coerced to a pool instead of a panic
SizeAccepted(n) == TRUE

\* assert!(size > 0)
AssertSize(n) == n > 0

\* assert!(size > 0); channel(); Arc::new(Mutex::new(receiver))
NewBegin(n) ==
    /\ main = "start"
    /\ size' = n
    /\ IF AssertSize(n)
         THEN /\ main' = "spawning"
              /\ sender' = TRUE
              /\ rxRefs' = 1
         ELSE /\ main' = "newPanicked"
              /\ UNCHANGED <<sender, rxRefs>>
    /\ UNCHANGED <<workers, queue, lock, poisoned, wpc, msg, submitVars,
                   execCount, delivered, log, dropIdx, dropRuns, closeCount,
                   joinCount, joinFailed, queuedAtClose, runningAtClose>>

\* workers.push(Worker::new(id, Arc::clone(&receiver))): the thread is spawned
\* and owns its clone of the Arc
NewSpawn ==
    /\ main = "spawning"
    /\ LET id == Len(workers) + 1 IN
         /\ id \in IdRange(size)
         /\ workers' = Append(workers, [id |-> id, thread |-> TRUE])
         /\ wpc' = [wpc EXCEPT ![id] = "loop"]
    /\ rxRefs' = rxRefs + 1
    /\ UNCHANGED <<main, size, sender, queue, lock, poisoned, msg, submitVars,
                   execCount, delivered, log, dropIdx, dropRuns, closeCount,
                   joinCount, joinFailed, queuedAtClose, runningAtClose>>

\* Self { workers, sender: Some(sender) }; the local `receiver` goes out of scope
NewReturn ==
    /\ main = "spawning"
    /\ Len(workers) + 1 \notin IdRange(size)
    /\ main' = "ready"
    /\ rxRefs' = rxRefs - 1
    /\ UNCHANGED <<size, workers, sender, queue, lock, poisoned, wpc, msg,
                   submitVars, execCount, delivered, log, dropIdx, dropRuns,
                   closeCount, joinCount, joinFailed, queuedAtClose,
                   runningAtClose>>

----------------------------------------------------------------------------
\* ThreadPool::execute

\* a send that succeeds with no receiver left
ExecuteOutcomeIgnoresReceiver(s, refs) == IF ~s THEN NoSender ELSE "sent"

\* a submission that checks neither the sender nor the result of send
ExecuteOutcomeUnchecked(s, refs) == "sent"

\* self.sender.as_ref().expect(..).send(job).expect(..): send fails only when
\* the receiver has been deallocated
ExecuteOutcome(s, refs) ==
    IF ~s THEN NoSender
    ELSE IF refs = 0 THEN SendFailed
    ELSE "sent"

\* a channel that puts the job at the front
EnqueueFront(q, j) == <<j>> \o q

\* Sender::send puts the job at the back of the channel
Enqueue(q, j) == Append(q, j)

\* a rendezvous channel: send waits until the buffer is empty
SendReadyRendezvous(q) == q = <<>>

\* mpsc::channel() is unbounded: send never waits for room or for a receiver
SendReady(q) == TRUE

Execute(panics) ==
    /\ main \in {"ready", "dropped"}
    /\ SendReady(queue)
    /\ nextId <= MaxJobs
    /\ LET job == nextId
           res == ExecuteOutcome(sender, rxRefs) IN
         /\ nextId' = nextId + 1
         /\ IF res = "sent"
              THEN /\ queue' = Enqueue(queue, job)
                   /\ accepted' = accepted \cup {job}
                   /\ bad' = IF panics THEN bad \cup {job} ELSE bad
                   /\ UNCHANGED rejected
              ELSE /\ rejected' = rejected \cup {[job |-> job, err |-> res]}
                   /\ UNCHANGED <<queue, accepted, bad>>
    /\ UNCHANGED <<poolVars, rxRefs, lock, poisoned, wpc, msg, execCount,
                   delivered, log>>

----------------------------------------------------------------------------
\* The worker thread: the closure given to thread::spawn in Worker::new

\* a receiver shared without mutual exclusion
LockFreeAlways(l) == TRUE

\* Mutex::lock returns once no other thread holds the mutex
LockFree(l) == l = 0

\* a guard that lives until the end of the loop body
KeepGuard(l, w) == l

\* the MutexGuard temporary is dropped at the end of the `let message` statement
DropGuard(l, w) == IF l = w THEN 0 ELSE l

\* a recv that does not wake up when the sender goes away
RecvReadyNeverWakes(q, open) == q # <<>>

\* a recv that does not wait for a job (try_recv)
RecvReadyPolling(q, open) == TRUE

\* a recv that hands out the newest buffered job
RecvMsgNewest(q, open) == IF q # <<>> THEN q[Len(q)] ELSE RecvErr

\* a recv that reports the disconnection before the buffered jobs
RecvMsgForgetsBuffered(q, open) == IF ~open THEN RecvErr ELSE Head(q)

\* Receiver::recv: the oldest buffered job, Err once the channel is empty and
\* every sender is gone, and blocking otherwise
RecvReady(q, open) == q # <<>> \/ ~open
RecvMsg(q, open) == IF q # <<>> THEN Head(q) ELSE RecvErr

\* the thread is over: its closure, and with it its clone of the Arc, is
\* dropped; the last clone frees the receiver and the jobs still buffered
ThreadEnds(w, how) ==
    /\ wpc' = [wpc EXCEPT ![w] = how]
    /\ msg' = [msg EXCEPT ![w] = NoMsg]
    /\ rxRefs' = rxRefs - 1
    /\ queue' = IF rxRefs = 1 THEN <<>> ELSE queue

\* receiver.lock().expect("failed to acquire the lock")
Lock(w) ==
    /\ wpc[w] = "loop"
    /\ LockFree(lock)
    /\ IF poisoned
         THEN /\ ThreadEnds(w, "panicked")
              /\ UNCHANGED lock
         ELSE /\ lock' = w
              /\ wpc' = [wpc EXCEPT ![w] = "recv"]
              /\ UNCHANGED <<msg, rxRefs, queue>>
    /\ UNCHANGED <<poolVars, submitVars, poisoned, execCount, delivered, log>>

\* .recv() finds the message it is going to return
Recv(w) ==
    /\ wpc[w] = "recv"
    /\ RecvReady(queue, sender)
    /\ msg' = [msg EXCEPT ![w] = RecvMsg(queue, sender)]
    /\ wpc' = [wpc EXCEPT ![w] = "recvd"]
    /\ UNCHANGED <<poolVars, submitVars, queue, rxRefs, lock, poisoned,
                   execCount, delivered, log>>

\* .recv() returns Ok(job), the guard is dropped, `match message` calls job()
RecvOk(w) ==
    /\ wpc[w] = "recvd"
    /\ msg[w] # RecvErr
    /\ queue # <<>>
    /\ queue' = Tail(queue)
    /\ lock' = DropGuard(lock, w)
    /\ delivered' = Append(delivered, msg[w])
    /\ execCount' = [execCount EXCEPT ![msg[w]] = @ + 1]
    /\ wpc' = [wpc EXCEPT ![w] = "running"]
    /\ UNCHANGED <<poolVars, submitVars, rxRefs, poisoned, msg, log>>

\* .recv() returns Err(_), the guard is dropped, `match message` breaks
RecvDisconnected(w) ==
    /\ wpc[w] = "recvd"
    /\ msg[w] = RecvErr
    /\ lock' = DropGuard(lock, w)
    /\ ThreadEnds(w, "exited")
    /\ UNCHANGED <<poolVars, submitVars, poisoned, execCount, delivered, log>>

\* job() returns and the loop starts over
JobReturns(w) ==
    /\ wpc[w] = "running"
    /\ msg[w] \notin bad
    /\ log' = Append(log, msg[w])
    /\ wpc' = [wpc EXCEPT ![w] = "loop"]
    /\ msg' = [msg EXCEPT ![w] = NoMsg]
    /\ UNCHANGED <<poolVars, submitVars, queue, rxRefs, lock, poisoned,
                   execCount, delivered>>

\* job() panics: the thread unwinds; a guard still held poisons the mutex
JobPanics(w) ==
    /\ wpc[w] = "running"
    /\ msg[w] \in bad
    /\ poisoned' = (poisoned \/ lock = w)
    /\ lock' = DropGuard(lock, w)
    /\ ThreadEnds(w, "panicked")
    /\ UNCHANGED <<poolVars, submitVars, execCount, delivered, log>>

Worker(w) ==
    \/ Lock(w)
    \/ Recv(w)
    \/ RecvOk(w)
    \/ RecvDisconnected(w)
    \/ JobReturns(w)
    \/ JobPanics(w)

----------------------------------------------------------------------------
\* impl Drop for ThreadPool

\* joining through the handle without taking it out of the Option
KeepThread(ws, i) == ws

\* worker.thread.take()
TakeThread(ws, i) == [ws EXCEPT ![i].thread = FALSE]

\* a handle that is dropped (the thread detached) instead of joined
ThreadOverOrDetached(pc) == TRUE

\* JoinHandle::join returns once the thread is over
ThreadOver(pc) == pc \in {"exited", "panicked"}

\* the loop visiting the workers from the last to the first
NextWorkerReversed(ws, i) == ws[Len(ws) + 1 - i]

\* `for worker in &mut self.workers` visits the vector from its first element
NextWorker(ws, i) == ws[i]

\* drop(self.sender.take())
DropClose ==
    /\ main \in {"ready", "dropped"}
    /\ dropRuns < MaxDrops
    /\ main' = "dropping"
    /\ dropRuns' = dropRuns + 1
    /\ sender' = FALSE
    /\ closeCount' = IF sender THEN closeCount + 1 ELSE closeCount
    /\ queuedAtClose' = IF sender THEN {queue[i] : i \in 1..Len(queue)}
                        ELSE queuedAtClose
    /\ runningAtClose' =
          IF sender THEN {msg[w] : w \in {u \in Threads : wpc[u] = "running"}}
          ELSE runningAtClose
    /\ dropIdx' = 1
    /\ UNCHANGED <<size, workers, queue, rxRefs, lock, poisoned, wpc, msg,
                   submitVars, execCount, delivered, log, joinCount, joinFailed>>

\* one turn of `for worker in &mut self.workers`: take the handle and join it;
\* join returns once the thread is over, Err when it panicked
DropJoin ==
    /\ main = "dropping"
    /\ dropIdx <= Len(workers)
    /\ LET worker == NextWorker(workers, dropIdx)
           w == worker.id IN
         IF worker.thread
           THEN /\ ThreadOver(wpc[w])
                /\ workers' = TakeThread(workers, w)
                /\ joinCount' = [joinCount EXCEPT ![w] = @ + 1]
                /\ IF wpc[w] = "panicked"
                     THEN /\ joinFailed' = joinFailed \cup {w}
                          /\ main' = "dropPanicked"
                          /\ UNCHANGED dropIdx
                     ELSE /\ dropIdx' = dropIdx + 1
                          /\ UNCHANGED <<main, joinFailed>>
           ELSE /\ dropIdx' = dropIdx + 1
                /\ UNCHANGED <<main, workers, joinCount, joinFailed>>
    /\ UNCHANGED <<size, sender, queue, rxRefs, lock, poisoned, wpc, msg,
                   submitVars, execCount, delivered, log, dropRuns, closeCount,
                   queuedAtClose, runningAtClose>>

\* the loop is over and drop returns
DropReturn ==
    /\ main = "dropping"
    /\ dropIdx > Len(workers)
    /\ main' = "dropped"
    /\ UNCHANGED <<size, workers, sender, queue, rxRefs, lock, poisoned, wpc,
                   msg, submitVars, execCount, delivered, log, dropIdx,
                   dropRuns, closeCount, joinCount, joinFailed, queuedAtClose,
                   runningAtClose>>

----------------------------------------------------------------------------
Next ==
    \/ \E n \in 0..MaxWorkers : NewBegin(n)
    \/ NewSpawn
    \/ NewReturn
    \/ \E panics \in BOOLEAN : Execute(panics)
    \/ \E w \in Threads : Worker(w)
    \/ DropClose
    \/ DropJoin
    \/ DropReturn

Spec == Init /\ [][Next]_vars

\* Every thread that can take a step is scheduled: the worker threads are OS
\* threads, a job that is called returns or panics, and the thread running
\* drop goes on joining.
Fairness ==
    /\ \A w \in Threads : WF_vars(Worker(w))
    /\ WF_vars(DropJoin)
    /\ WF_vars(DropReturn)

FairSpec == Init /\ [][Next]_vars /\ Fairness


----------------------------------------------------------------------------
\* Helpers of the properties

Occurrences(s, x) == Cardinality({i \in 1..Len(s) : s[i] = x})
DeliveredJobs == delivered
InQueue(j) == \E i \in 1..Len(queue) : queue[i] = j
IsPrefix(s, t) == Len(s) <= Len(t) /\ \A i \in 1..Len(s) : s[i] = t[i]
\* the accepted jobs in the order of their submission
AcceptedSeq ==
    [i \in 1..Cardinality(accepted) |->
        CHOOSE j \in accepted : Cardinality({k \in accepted : k < j}) = i - 1]
Holding(w) == wpc[w] \in {"recvd", "running"} /\ msg[w] \in Jobs
Live == Cardinality({w \in Threads : wpc[w] \in {"loop", "recv", "recvd", "running"}})
Constructed == main \in {"ready", "dropping", "dropped", "dropPanicked"}

\* C1: once drop has returned, every job that execute accepted has been called
\* exactly once and has run to completion exactly once: the number of
\* completions equals the number of accepted jobs, none ran twice, none was
\* dropped, whether or not it was still buffered when the sender was closed.
C1_AllJobsRunOnceAfterShutdown ==
    main = "dropped" =>
        /\ Len(log) = Cardinality(accepted)
        /\ \A j \in accepted : execCount[j] = 1 /\ Occurrences(log, j) = 1

C1_Witness ==
    /\ main = "dropped"
    /\ Cardinality(accepted) >= 2
    /\ queuedAtClose # {}
    /\ Len(log) = Cardinality(accepted)

\* C2: no job is handed to two workers: two workers never hold the same job at
\* the same time, and no job is handed out by recv twice.
C2_NoJobDeliveredTwice ==
    /\ \A w1, w2 \in Threads :
          (w1 # w2 /\ Holding(w1) /\ Holding(w2)) => msg[w1] # msg[w2]
    /\ \A j \in Jobs : Occurrences(DeliveredJobs, j) <= 1

C2_Witness ==
    \E w1, w2 \in Threads :
        /\ w1 # w2
        /\ wpc[w1] = "running" /\ wpc[w2] = "running"
        /\ msg[w1] # msg[w2]

\* C3: while the sender is open, every job that execute accepted is still
\* buffered in the channel or has been handed to exactly one worker; no
\* accepted job vanishes without being delivered, also after a worker thread
\* has been terminated by a failed job.
C3_AcceptedJobsNeverDropped ==
    sender =>
        \A j \in accepted :
            \/ InQueue(j) /\ Occurrences(DeliveredJobs, j) = 0
            \/ ~InQueue(j) /\ Occurrences(DeliveredJobs, j) = 1

\* C4: execute called after drop has returned is reported as an error (the
\* sender is not available anymore) and leaves the channel untouched; a
\* rejected job is never buffered and never called.
C4_ExecuteAfterShutdownRejected ==
    /\ [](\A r \in rejected : ~InQueue(r.job) /\ execCount[r.job] = 0
                              /\ r.job \notin accepted)
    /\ [][(main = "dropped" /\ nextId' # nextId) =>
            /\ [job |-> nextId, err |-> NoSender] \in rejected'
            /\ queue' = queue
            /\ accepted' = accepted]_vars

C4_Witness ==
    /\ main = "dropped"
    /\ \E r \in rejected : r.err = NoSender /\ execCount[r.job] = 0

\* C5: drop run again on a pool already shut down changes nothing: the sender
\* stays closed and is closed no second time, every handle stays taken, no
\* worker is joined a second time, and the run does not panic.
C5_ShutdownIdempotent ==
    /\ [](closeCount <= 1 /\ \A w \in Threads : joinCount[w] <= 1)
    /\ [][(dropRuns' >= 2 /\ (main = "dropping" \/ main' = "dropping")) =>
            /\ main' \in {"dropping", "dropped"}
            /\ ~sender'
            /\ \A i \in 1..Len(workers') : ~workers'[i].thread
            /\ UNCHANGED <<sender, workers, queue, rxRefs, wpc, closeCount,
                           joinCount, joinFailed>>]_vars

C5_Witness ==
    /\ dropRuns >= 2
    /\ main = "dropped"
    /\ closeCount = 1
    /\ \A i \in 1..Len(workers) : joinCount[i] = 1

\* C6: when the join of a worker fails during drop, drop still joins every
\* other worker: once drop is over, every worker has been joined.
C6_JoinFailureDoesNotAbandonRest ==
    (joinFailed # {} /\ main \in {"dropped", "dropPanicked"}) =>
        \A i \in 1..Len(workers) : joinCount[workers[i].id] >= 1

\* C7: a job that panics terminates only the worker that ran it: every other
\* worker stays where it is, the mutex is not poisoned, the channel keeps the
\* jobs it buffered, the number of live workers drops by exactly one, and it
\* never grows once the pool is constructed.
C7_JobFailureIsLocal ==
    /\ [][\A w \in Threads :
            (wpc[w] = "running" /\ wpc'[w] = "panicked") =>
                /\ \A u \in Threads \ {w} : wpc'[u] = wpc[u]
                /\ ~poisoned'
                /\ queue' = queue
                /\ Live' = Live - 1]_vars
    /\ [][Constructed => Live' <= Live]_vars

\* C8: in a pool of one worker the jobs run in the order of their submission:
\* the completions are always a prefix of the accepted jobs in submission
\* order, and all of them once drop has returned.
C8_SingleWorkerKeepsOrder ==
    size = 1 =>
        /\ IsPrefix(log, AcceptedSeq)
        /\ IsPrefix(DeliveredJobs, AcceptedSeq)
        /\ main = "dropped" => log = AcceptedSeq

C8_Witness ==
    /\ size = 1
    /\ main = "dropped"
    /\ Len(log) >= 3
    /\ log = AcceptedSeq

\* C9: in a pool of at least two workers a job that is running keeps no other
\* worker from taking the next job: while a worker runs a job and no worker is
\* inside recv, a worker at the top of its loop can take the lock; and once
\* drop has returned every accepted job has completed exactly once, in
\* whatever order.
C9_SlowJobDoesNotBlockOthers ==
    size >= 2 =>
        /\ \A w, u \in Threads :
              (/\ wpc[w] = "running"
               /\ wpc[u] = "loop"
               /\ \A v \in Threads : wpc[v] \notin {"recv", "recvd"})
              => ENABLED Lock(u)
        /\ main = "dropped" =>
              \A j \in accepted : Occurrences(log, j) = 1

\* job B, submitted after job A, has completed while A is still running
C9_Witness ==
    /\ size >= 2
    /\ \E w \in Threads : \E b \in Jobs :
          /\ wpc[w] = "running"
          /\ b > msg[w]
          /\ Occurrences(log, b) = 1

\* C10: new(N) with N >= 1 creates exactly N workers with the ids 1..N, each
\* with its thread handle and its own clone of the one shared receiver, all
\* of them spawned when new returns; the workers the pool owns never change
\* afterwards.
C10_NewCreatesNWorkers ==
    /\ [](Constructed =>
            /\ size >= 1
            /\ Len(workers) = size
            /\ \A i \in 1..Len(workers) : workers[i].id = i
            /\ \A w \in Threads : (wpc[w] # "unborn") <=> (w \in 1..size))
    /\ [][(main = "spawning" /\ main' = "ready") =>
            /\ \A i \in 1..Len(workers') : workers'[i].thread
            /\ rxRefs' = size
            /\ Live' = size]_vars
    /\ [][Constructed =>
            /\ Len(workers') = Len(workers)
            /\ \A i \in 1..Len(workers) : workers'[i].id = workers[i].id]_vars

C10_Witness ==
    /\ main = "ready"
    /\ size >= 2
    /\ Len(workers) = size
    /\ \A i \in 1..size : workers[i].thread /\ wpc[i] # "unborn"

\* C11: new(0) panics at the assertion: no pool is returned, no worker is
\* spawned, no channel or receiver is left behind, and the size stays zero;
\* a pool is never constructed with size zero.
C11_NewZeroFails ==
    /\ (size = 0 /\ main # "start") => main = "newPanicked"
    /\ main = "newPanicked" =>
          /\ size = 0
          /\ workers = <<>>
          /\ ~sender
          /\ rxRefs = 0
          /\ \A w \in Threads : wpc[w] = "unborn"
    /\ Constructed => size >= 1

C11_Witness ==
    /\ main = "newPanicked"
    /\ size = 0
    /\ workers = <<>>

\* C12: a job that a worker has been handed is never interrupted: the worker
\* stays in the job until the job itself returns (and is recorded as completed)
\* or panics, also after the sender has been dropped; and drop does not return
\* while a job is running or before every worker has been joined, so the jobs
\* that were running when the sender was dropped have completed by then.
C12_ShutdownNeverInterruptsJob ==
    /\ [][\A w \in Threads :
            wpc[w] = "running" =>
                \/ wpc'[w] = "running" /\ msg'[w] = msg[w]
                \/ /\ msg[w] \notin bad
                   /\ wpc'[w] = "loop"
                   /\ log' = Append(log, msg[w])
                \/ msg[w] \in bad /\ wpc'[w] = "panicked"]_vars
    /\ [](main = "dropped" =>
            /\ \A w \in Threads : wpc[w] \in {"unborn", "exited"}
            /\ \A i \in 1..Len(workers) : joinCount[workers[i].id] = 1
            /\ \A j \in runningAtClose : Occurrences(log, j) = 1)

C12_Witness ==
    /\ main = "dropped"
    /\ runningAtClose # {}
    /\ \A j \in runningAtClose : Occurrences(log, j) = 1

\* C13: once the sender has been dropped every worker thread is eventually
\* over, wherever it was (inside recv with the lock, waiting for the lock, or
\* running a job), and, when no job panics, drop joins all the workers and
\* returns.
C13_ShutdownTerminates ==
    /\ (Constructed /\ ~sender) ~>
            (\A w \in 1..size : wpc[w] \in {"exited", "panicked"})
    /\ (main = "dropping" /\ bad = {}) ~> (main = "dropped")

\* the sender has just been dropped with one worker blocked in recv holding
\* the lock, another one waiting for the lock and a third position running
C13_Witness ==
    /\ main = "dropping"
    /\ ~sender
    /\ dropIdx = 1
    /\ \E w, u \in Threads :
          /\ wpc[w] = "recv" /\ lock = w /\ queue = <<>>
          /\ wpc[u] = "loop"

\* C14: drop closes the sender before it joins anybody and joins the workers
\* in the order of their ids: a worker is joined only after every worker with
\* a lower id has been joined.
C14_ShutdownOrdered ==
    [][\A w \in Threads :
          joinCount'[w] > joinCount[w] =>
              /\ ~sender
              /\ closeCount >= 1
              /\ \A k \in 1..(w - 1) : joinCount[k] >= 1]_vars

C14_Witness ==
    /\ main = "dropped"
    /\ size >= 2
    /\ \A w \in 1..size : joinCount[w] = 1

\* C15: recv hands the jobs out in the order in which execute put them into
\* the channel, whatever the number of workers: the deliveries are a prefix of
\* the accepted jobs in submission order, no job is handed out while an older
\* one is still buffered, and any two jobs are delivered in the order of their
\* submission, so the jobs of each producer are, whichever jobs are its own.
C15_FifoDelivery ==
    /\ IsPrefix(DeliveredJobs, AcceptedSeq)
    /\ \A i \in 1..Len(delivered) : \A j \in accepted :
          j < delivered[i] => ~InQueue(j)
    /\ \A a, b \in 1..Len(delivered) :
          a < b => delivered[a] < delivered[b]

C15_Witness ==
    /\ size >= 2
    /\ Len(delivered) >= 3
    /\ \E w, u \in Threads :
          w # u /\ wpc[w] = "running" /\ wpc[u] = "running" /\ msg[w] < msg[u]

\* C16: on a pool that has not been dropped execute succeeds and buffers the
\* job when a worker thread is still alive, and panics with "sending job to
\* worker failed", buffering nothing, when every worker thread is over.
C16_SendFailsOnlyWithoutConsumer ==
    [][(main = "ready" /\ nextId' # nextId) =>
          IF Live >= 1
            THEN /\ accepted' = accepted \cup {nextId}
                 /\ queue' = Append(queue, nextId)
                 /\ rejected' = rejected
            ELSE /\ rejected' = rejected \cup {[job |-> nextId, err |-> SendFailed]}
                 /\ accepted' = accepted
                 /\ queue' = queue]_vars

C16_Witness ==
    /\ main = "ready"
    /\ Live = 0
    /\ \E r \in rejected : r.err = SendFailed
    /\ accepted # {}

\* C17: on an open pool with a live worker execute can always take its step,
\* also when every worker is running a job and jobs are buffered, and the step
\* buffers the job without touching the lock or any worker.
C17_ExecuteNeverBlocks ==
    /\ [](\A panics \in BOOLEAN :
            (main = "ready" /\ Live >= 1 /\ nextId <= MaxJobs)
                => ENABLED Execute(panics))
    /\ [][(main = "ready" /\ Live >= 1 /\ nextId' # nextId) =>
            /\ queue' = Append(queue, nextId)
            /\ UNCHANGED <<lock, wpc, msg>>]_vars

\* every worker is running a job and two more jobs are buffered behind them
C17_Witness ==
    /\ main = "ready"
    /\ \A w \in 1..size : wpc[w] = "running"
    /\ Len(queue) >= 2

\* C18: at most one worker is inside recv, the lock is held exactly by the
\* worker inside recv, it has been released when the job starts, so no worker
\* runs a job holding it, and a worker that panics does not hold it (the
\* mutex is never poisoned).
C18_LockHeldOnlyInRecv ==
    /\ [](/\ Cardinality({w \in Threads : wpc[w] \in {"recv", "recvd"}}) <= 1
          /\ \A w \in Threads : (wpc[w] \in {"recv", "recvd"}) <=> (lock = w)
          /\ \A w \in Threads : wpc[w] = "running" => lock # w
          /\ ~poisoned)
    /\ [][\A w \in Threads :
            (wpc[w] # "panicked" /\ wpc'[w] = "panicked") => lock # w]_vars

C18_Witness ==
    \E w, u \in Threads :
        /\ wpc[w] = "running"
        /\ wpc[u] = "recvd"
        /\ lock = u

\* C19: every accepted job is in exactly one of four places: buffered in the
\* channel, in flight on exactly one worker, finished, or failed; the jobs in
\* flight are never more than the live workers.
Queued(j) == InQueue(j)
InFlightOn(j) == {w \in Threads : wpc[w] = "running" /\ msg[w] = j}
Finished(j) == Occurrences(log, j) >= 1
Failed(j) == /\ j \in bad
             /\ execCount[j] >= 1
             /\ InFlightOn(j) = {}
Places(j) ==
    (IF Queued(j) THEN 1 ELSE 0) + Cardinality(InFlightOn(j))
    + (IF Finished(j) THEN 1 ELSE 0) + (IF Failed(j) THEN 1 ELSE 0)

C19_JobConservation ==
    /\ \A j \in accepted : Places(j) = 1
    /\ Cardinality({j \in accepted : InFlightOn(j) # {}}) <= Live

\* C20: a worker leaves its loop through Err(recv) only when the sender has
\* been dropped and the channel is empty; no worker has exited while the
\* sender exists, and the jobs buffered when the sender was dropped have all
\* been handed out before any worker exits.
C20_ExitOnlyWhenClosedAndEmpty ==
    /\ [][\A w \in Threads :
            (wpc[w] # "exited" /\ wpc'[w] = "exited") =>
                ~sender /\ queue = <<>>]_vars
    /\ [](\A w \in Threads :
            wpc[w] = "exited" =>
                /\ ~sender
                /\ queue = <<>>
                /\ \A j \in queuedAtClose : Occurrences(DeliveredJobs, j) = 1)

C20_Witness ==
    /\ queuedAtClose # {}
    /\ \E w \in Threads : wpc[w] = "exited"

====
